---- MODULE Spec2Model ----
(***************************************************************************)
(* A model of snitch: the ECS capacity reporter.  One pass discovers the   *)
(* clusters, measures each cluster in its own goroutine (largest task      *)
(* footprint, then containers possible per EC2 instance type) and, when    *)
(* asked, publishes the metric data to CloudWatch in batches.              *)
(*                                                                         *)
(* Go strings are TLA+ strings, a nil pointer is Nil, a slice is a         *)
(* sequence, a map is a function on its key set.  The AWS services are     *)
(* the environment: what they hold is chosen in Init, whether a call       *)
(* fails is chosen when the call is made.                                  *)
(***************************************************************************)
EXTENDS Integers, Sequences, FiniteSets, Bags, TLC

----------------------------------------------------------------------------
(* Bounds of the model.                                                     *)

MaxUnit == 3            \* largest footprint field given to ContainersPossible
MaxResources == 3       \* longest resource vector given to ContainersPossible
MaxResourceValue == 4   \* largest IntegerValue of a resource
MaxPoints == 45         \* longest metric list given to Publish
MaxInstances == 2       \* most container instances described for a cluster
MaxTaskPages == 2       \* most pages of a cluster's task listing

(* Program constants.                                                       *)

batchSize == 20
MaxInt == 2147483647    \* stands for Go's largest int (1<<63 - 1)

Nil == "<nil>"          \* a nil *string

----------------------------------------------------------------------------
(* Small helpers on sequences and sets.                                     *)

Range(s) == {s[i] : i \in 1..Len(s)}

SeqsUpTo(S, n) == UNION {[1..k -> S] : k \in 0..n}

Perms(S) == {p \in [1..Cardinality(S) -> S] : \A i, j \in 1..Cardinality(S) : p[i] = p[j] => i = j}

RECURSIVE Flatten(_)
Flatten(ss) == IF ss = <<>> THEN <<>> ELSE Head(ss) \o Flatten(Tail(ss))

RECURSIVE SumOver(_, _)
SumOver(I, f) == IF I = {} THEN 0 ELSE LET i == CHOOSE j \in I : TRUE IN f[i] + SumOver(I \ {i}, f)

SeqToBag(s) == [x \in Range(s) |-> Cardinality({i \in 1..Len(s) : s[i] = x})]

Max2(a, b) == IF a > b THEN a ELSE b
Min2(a, b) == IF a < b THEN a ELSE b

----------------------------------------------------------------------------
(* Go library functions the program calls.                                  *)

(* strings.Index: position of the first occurrence of sep in s, 0 if none.  *)
Index(s, sep) ==
    LET hits == {i \in 1..(Len(s) - Len(sep) + 1) : SubSeq(s, i, i + Len(sep) - 1) = sep}
    IN  IF hits = {} THEN 0 ELSE CHOOSE i \in hits : \A j \in hits : i <= j

(* strings.Split(s, sep) for a non-empty sep.                               *)
RECURSIVE Split(_, _)
Split(s, sep) ==
    LET i == Index(s, sep)
    IN  IF i = 0 THEN <<s>>
        ELSE <<SubSeq(s, 1, i - 1)>> \o Split(SubSeq(s, i + Len(sep), Len(s)), sep)

Digits == [c \in {"0", "1", "2", "3", "4", "5", "6", "7", "8", "9"} |->
            CASE c = "0" -> 0 [] c = "1" -> 1 [] c = "2" -> 2 [] c = "3" -> 3 [] c = "4" -> 4
              [] c = "5" -> 5 [] c = "6" -> 6 [] c = "7" -> 7 [] c = "8" -> 8 [] c = "9" -> 9]

RECURSIVE DecimalValue(_, _)
DecimalValue(s, acc) ==
    IF s = "" THEN acc
    ELSE DecimalValue(SubSeq(s, 2, Len(s)), 10 * acc + Digits[SubSeq(s, 1, 1)])

(* strconv.Atoi: [val, err].  A syntax error gives 0; a number that does    *)
(* not fit an int gives the nearest int and a range error.  Strings of up   *)
(* to 9 digits are evaluated; 20 digits or more are out of range.           *)
Atoi(s) ==
    LET signed == s # "" /\ SubSeq(s, 1, 1) \in {"+", "-"}
        neg    == s # "" /\ SubSeq(s, 1, 1) = "-"
        body   == IF signed THEN SubSeq(s, 2, Len(s)) ELSE s
        ok     == body # "" /\ \A i \in 1..Len(body) : SubSeq(body, i, i) \in DOMAIN Digits
    IN  IF ~ok THEN [val |-> 0, err |-> "syntax"]
        ELSE IF Len(body) >= 20 THEN [val |-> IF neg THEN -MaxInt - 1 ELSE MaxInt, err |-> "range"]
        ELSE [val |-> IF neg THEN -DecimalValue(body, 0) ELSE DecimalValue(body, 0), err |-> Nil]

(* Go's integer division truncates toward zero.                             *)
GoDiv(a, b) ==
    IF (a >= 0) = (b > 0) THEN (IF a >= 0 THEN a ELSE -a) \div (IF b > 0 THEN b ELSE -b)
    ELSE -((IF a >= 0 THEN a ELSE -a) \div (IF b > 0 THEN b ELSE -b))

(* float64(int): exact for every int of the model (all far below 2^53).     *)
Float64(v) == v

----------------------------------------------------------------------------
(* ContainersPossible: how many containers of (cpu, memory) fit the         *)
(* resources of one EC2 instance.                                           *)

(* The loop over the resources: <<byCPU, byMemory>> after the last entry.   *)
RECURSIVE Accumulate(_, _, _, _)
Accumulate(cpu, memory, resources, by) ==
    IF resources = <<>> THEN by
    ELSE LET resource == Head(resources)
             next == CASE resource.Name = "CPU" ->
                            <<by[1] + GoDiv(resource.IntegerValue, cpu), by[2]>>
                       [] resource.Name = "MEMORY" ->
                            <<by[1], by[2] + GoDiv(resource.IntegerValue, memory)>>
                       [] OTHER -> by
         IN  Accumulate(cpu, memory, Tail(resources), next)

ContainersPossible_SumThenDivide(cpu, memory, resources) ==
    LET c == SumOver({i \in 1..Len(resources) : resources[i].Name = "CPU"},
                     [i \in 1..Len(resources) |-> resources[i].IntegerValue])
        m == SumOver({i \in 1..Len(resources) : resources[i].Name = "MEMORY"},
                     [i \in 1..Len(resources) |-> resources[i].IntegerValue])
    IN  Min2(GoDiv(c, cpu), GoDiv(m, memory))

ContainersPossible(cpu, memory, resources) ==
    LET by == Accumulate(cpu, memory, resources, <<0, 0>>)
    IN  IF by[1] < by[2] THEN 0 + by[1] ELSE 0 + by[2]

----------------------------------------------------------------------------
(* The ledger: ClusterResources.                                            *)

MetricNames ==
    {"LowestCommonMultipleCPU", "LowestCommonMultipleMemory",
     "RegisteredSchedulable", "RemainingSchedulable"}

EmptyMap == <<>>

(* m[k] of a Go map: the zero value when k is absent.                       *)
MapGet(m, k) == IF k \in DOMAIN m THEN m[k] ELSE 0

MapSet_SkipZero(m, k, v) ==
    IF v = 0 THEN m ELSE [x \in (DOMAIN m) \cup {k} |-> IF x = k THEN v ELSE m[x]]

(* m[k] = v of a Go map.                                                    *)
MapSet(m, k, v) == [x \in (DOMAIN m) \cup {k} |-> IF x = k THEN v ELSE m[x]]

NewClusterResources(cluster) ==
    [Cluster |-> cluster, CPU |-> EmptyMap, Memory |-> EmptyMap,
     Registered |-> EmptyMap, Remaining |-> EmptyMap]

(* cr.Resources: the four maps under their metric names (the same maps, by  *)
(* reference, as the four fields).                                          *)
Resources(cr) ==
    [n \in MetricNames |->
        CASE n = "LowestCommonMultipleCPU" -> cr.CPU
          [] n = "LowestCommonMultipleMemory" -> cr.Memory
          [] n = "RegisteredSchedulable" -> cr.Registered
          [] n = "RemainingSchedulable" -> cr.Remaining]

(* One metric datum.  The timestamp (time.Now()) is left out.               *)
MetricDatum(metricName, cluster, instanceType, value) ==
    [MetricName |-> metricName,
     Dimensions |-> << [Name |-> "ClusterName", Value |-> cluster],
                       [Name |-> "InstanceType", Value |-> instanceType] >>,
     Value      |-> Float64(value),
     Unit       |-> "Count"]

(* The data of one metric name, its instance types ranged in keyOrder.      *)
DataOf(cr, metricName, keyOrder) ==
    [j \in 1..Len(keyOrder) |->
        MetricDatum(metricName, cr.Cluster, keyOrder[j], Resources(cr)[metricName][keyOrder[j]])]

ToMetricData_OnlyCounters(cr) ==
    {DataOf(cr, "RegisteredSchedulable", k3) \o DataOf(cr, "RemainingSchedulable", k4) :
        k3 \in Perms(DOMAIN cr.Registered), k4 \in Perms(DOMAIN cr.Remaining)}

(* ToMetricData: Go ranges over a map in an order it does not specify, so   *)
(* the result is any of these lists: the metric names in any order, the     *)
(* instance types of each in any order.                                     *)
ToMetricData(cr) ==
    {Flatten([i \in 1..4 |->
                DataOf(cr, nameOrder[i],
                       CASE nameOrder[i] = "LowestCommonMultipleCPU" -> k1
                         [] nameOrder[i] = "LowestCommonMultipleMemory" -> k2
                         [] nameOrder[i] = "RegisteredSchedulable" -> k3
                         [] nameOrder[i] = "RemainingSchedulable" -> k4)]) :
        nameOrder \in Perms(MetricNames),
        k1 \in Perms(DOMAIN cr.CPU), k2 \in Perms(DOMAIN cr.Memory),
        k3 \in Perms(DOMAIN cr.Registered), k4 \in Perms(DOMAIN cr.Remaining)}

(* getInstanceType: the value of the first "ecs.instance-type" attribute.   *)
getInstanceType(attributes) ==
    LET hits == {i \in 1..Len(attributes) : attributes[i].Name = "ecs.instance-type"}
    IN  IF hits = {} THEN ""
        ELSE attributes[CHOOSE i \in hits : \A j \in hits : i <= j].Value

RecordInstance_Summed(cr, container, cpu, memory) ==
    LET instanceType == getInstanceType(container.Attributes)
    IN  [cr EXCEPT
            !.CPU = MapSet(cr.CPU, instanceType, MapGet(cr.CPU, instanceType) + cpu),
            !.Memory = MapSet(cr.Memory, instanceType, MapGet(cr.Memory, instanceType) + memory),
            !.Registered = MapSet(cr.Registered, instanceType,
                MapGet(cr.Registered, instanceType)
                    + ContainersPossible(cpu, memory, container.RegisteredResources)),
            !.Remaining = MapSet(cr.Remaining, instanceType,
                MapGet(cr.Remaining, instanceType)
                    + ContainersPossible(cpu, memory, container.RemainingResources))]

(* The body of DescribeResourcesByInstanceType's loop, for one container    *)
(* instance.                                                                *)
RecordInstance(cr, container, cpu, memory) ==
    LET instanceType == getInstanceType(container.Attributes)
    IN  [cr EXCEPT
            !.CPU = MapSet(cr.CPU, instanceType, cpu),
            !.Memory = MapSet(cr.Memory, instanceType, memory),
            !.Registered = MapSet(cr.Registered, instanceType,
                MapGet(cr.Registered, instanceType)
                    + ContainersPossible(cpu, memory, container.RegisteredResources)),
            !.Remaining = MapSet(cr.Remaining, instanceType,
                MapGet(cr.Remaining, instanceType)
                    + ContainersPossible(cpu, memory, container.RemainingResources))]

----------------------------------------------------------------------------
(* MeasureResources: the largest CPU and the largest memory among the       *)
(* tasks DescribeTasks returned.                                            *)

RECURSIVE MeasureTasks_Paired(_, _, _)
MeasureTasks_Paired(tasks, cpu, memory) ==
    IF tasks = <<>> THEN <<cpu, memory>>
    ELSE LET task == Head(tasks)
             taskCPU == Atoi(task.Cpu).val
             taskMemory == Atoi(task.Memory).val
         IN  IF taskCPU > cpu THEN MeasureTasks_Paired(Tail(tasks), taskCPU, taskMemory)
             ELSE MeasureTasks_Paired(Tail(tasks), cpu, memory)

(* The loop over output.Tasks, from the running (cpu, memory).              *)
RECURSIVE MeasureTasks(_, _, _)
MeasureTasks(tasks, cpu, memory) ==
    IF tasks = <<>> THEN <<cpu, memory>>
    ELSE LET task == Head(tasks)
             taskCPU == Atoi(task.Cpu).val
             taskMemory == Atoi(task.Memory).val
         IN  MeasureTasks(Tail(tasks),
                          IF taskCPU > cpu THEN taskCPU ELSE cpu,
                          IF taskMemory > memory THEN taskMemory ELSE memory)

(* MeasureResources given the outcome of DescribeTasks: (0, 0) on error.    *)
MeasureResources(tasks, failed) ==
    IF failed THEN <<0, 0>> ELSE MeasureTasks(tasks, 0, 0)

----------------------------------------------------------------------------
(* PutMetricDataInput.Validate, as the tests describe it: the namespace     *)
(* and every dimension value are required and may not be empty.             *)

ValidDatum(datum) ==
    /\ datum.MetricName # Nil /\ datum.MetricName # ""
    /\ \A i \in 1..Len(datum.Dimensions) :
          /\ datum.Dimensions[i].Name # Nil /\ datum.Dimensions[i].Name # ""
          /\ datum.Dimensions[i].Value # Nil /\ datum.Dimensions[i].Value # ""

Validate(input) ==
    /\ input.Namespace # Nil /\ input.Namespace # ""
    /\ \A i \in 1..Len(input.MetricData) : ValidDatum(input.MetricData[i])

----------------------------------------------------------------------------
(* What the AWS account holds.                                              *)

ArnFake == "arn:aws:ecs:us-east-1:123456789012:cluster/fake-ecs-cluster"
ArnAnother == "arn:aws:ecs:us-east-1:123456789012:cluster/another-fake-ecs-cluster"
ClusterArns == {ArnFake, ArnAnother}

ClusterName_Prefix(arn) == Split(arn, ":cluster/")[1]

(* The name DiscoverClusters derives from an ARN.                           *)
ClusterName(arn) == Split(arn, ":cluster/")[2]

Clusters == {ClusterName(arn) : arn \in ClusterArns}

(* Tasks, as DescribeTasks describes them.                                  *)
Task(taskCpu, taskMemory) == [Cpu |-> taskCpu, Memory |-> taskMemory]

(* The pages ListTasksPages may deliver.                                    *)
Batches ==
    {<<>>,
     <<Task("2", "1")>>,
     <<Task("1", "2"), Task("invalidCPU", "invalidMemory")>>,
     <<Task("invalidCPU", "3")>>,
     <<Task("3", "-1"), Task("1", "1")>>,
     <<Task("1", "99999999999999999999")>>}

(* Resource vectors and container instances.                                *)
Resource(name, value) == [Name |-> name, IntegerValue |-> value]

ResourceNames == {"CPU", "MEMORY", "PORTS"}

ContainerInstance(attributes, registered, remaining) ==
    [Attributes |-> attributes, RegisteredResources |-> registered,
     RemainingResources |-> remaining, Status |-> "ACTIVE"]

(* The same instance while it is being drained.                             *)
Draining(instance) == [instance EXCEPT !.Status = "DRAINING"]

TypeAttr(value) == [Name |-> "ecs.instance-type", Value |-> value]

InstanceKinds ==
    {ContainerInstance(<<[Name |-> "ecs.os-type", Value |-> "linux"], TypeAttr("fake.2xlarge")>>,
                       <<Resource("CPU", 4), Resource("MEMORY", 4)>>,
                       <<Resource("CPU", 2), Resource("MEMORY", 3)>>),
     ContainerInstance(<<TypeAttr("fake.2xlarge"), TypeAttr("other.large")>>,
                       <<Resource("CPU", 3), Resource("PORTS", 9), Resource("MEMORY", 4)>>,
                       <<Resource("MEMORY", 1), Resource("CPU", 3)>>),
     ContainerInstance(<<>>,
                       <<Resource("CPU", 3), Resource("CPU", 3), Resource("MEMORY", 4)>>,
                       <<>>)}

Namespaces == {Nil, "", "Collector/Test"}

----------------------------------------------------------------------------
(* The state.                                                               *)

VARIABLES
    clusterPages,        \* ECS: the pages of cluster ARNs ListClustersPages delivers
    taskPages,           \* ECS: per cluster, the pages of tasks ListTasksPages delivers
    containerInstances,  \* ECS: per cluster, its active container instances
    Namespace,           \* Snitcher.Namespace
    ShouldPublish,       \* Snitcher.ShouldPublish
    run,                 \* the main goroutine: Run, Measure and Publish
    dc,                  \* the goroutine of DiscoverClusters and its channel
    dt,                  \* per cluster, the goroutine of DiscoverTasks and its channel
    mc,                  \* per cluster, the goroutine that runs MeasureCluster
    ecsCalls,            \* the ECS calls made so far: <<operation, cluster, outcome>>
    payload,             \* CloudWatch: the inputs PutMetricData was called with
    logged,              \* what Publish logged of each batch
    possible             \* a call of ContainersPossible and what it returned

vars == <<clusterPages, taskPages, containerInstances, Namespace, ShouldPublish,
          run, dc, dt, mc, ecsCalls, payload, logged, possible>>

world == <<clusterPages, taskPages, containerInstances, Namespace, ShouldPublish>>

(* A goroutine that was never started.                                      *)
NoDiscoverClusters == [pc |-> "none", page |-> 1, arn |-> 1, closed |-> FALSE, emitted |-> <<>>]
NoDiscoverTasks == [pc |-> "none", page |-> 1, closed |-> FALSE]
NoMeasureCluster ==
    [pc |-> "none", cpu |-> 0, memory |-> 0, tasks |-> <<>>, batches |-> 0, described |-> {},
     arns |-> <<>>, containers |-> <<>>, k |-> 0, cr |-> NewClusterResources(Nil),
     result |-> <<>>]
NoRun == [pc |-> "none", numClusters |-> 0, i |-> 0, metricData |-> <<>>, comClosed |-> FALSE,
          publishes |-> 0, input |-> <<>>, at |-> 0]
NoCall == [cpu |-> 1, memory |-> 1, resources |-> <<>>, returned |-> FALSE, canSchedule |-> 0]

(* How a call ended, and whether an operation was called for a cluster.     *)
Outcome(failed) == IF failed THEN "error" ELSE "ok"

Called(operation, cluster) ==
    \E outcome \in {"ok", "error"} : <<operation, cluster, outcome>> \in ecsCalls

EmptyAccount ==
    /\ clusterPages = <<>>
    /\ taskPages = [c \in Clusters |-> << <<>> >>]
    /\ containerInstances = [c \in Clusters |-> <<>>]

NothingSent ==
    /\ ecsCalls = {}
    /\ payload = <<>>
    /\ logged = <<>>

----------------------------------------------------------------------------
(* ContainersPossible called on its own, as TestContainersPossible does.    *)

InitPossible ==
    /\ EmptyAccount /\ NothingSent
    /\ Namespace = Nil /\ ShouldPublish = FALSE
    /\ run = NoRun /\ dc = NoDiscoverClusters
    /\ dt = [c \in Clusters |-> NoDiscoverTasks]
    /\ mc = [c \in Clusters |-> NoMeasureCluster]
    /\ \E unitCpu \in 1..MaxUnit, unitMemory \in 1..MaxUnit :
       \E resources \in SeqsUpTo([Name : ResourceNames, IntegerValue : 0..MaxResourceValue],
                                 MaxResources) :
          possible = [cpu |-> unitCpu, memory |-> unitMemory, resources |-> resources,
                      returned |-> FALSE, canSchedule |-> 0]

CallContainersPossible ==
    /\ ~possible.returned
    /\ possible' = [possible EXCEPT
            !.returned = TRUE,
            !.canSchedule = ContainersPossible(possible.cpu, possible.memory, possible.resources)]
    /\ UNCHANGED <<world, run, dc, dt, mc, ecsCalls, payload, logged>>

NextPossible == CallContainersPossible

SpecPossible == InitPossible /\ [][NextPossible]_vars

----------------------------------------------------------------------------
(* DiscoverTasks(cluster): a goroutine pages through the cluster's tasks    *)
(* and sends each page on an unbuffered channel, then closes it.            *)

DiscoverTasksFetch_ReturnOnError(c) ==
    /\ dt[c].pc = "fetch"
    /\ \/ /\ dt[c].page <= Len(taskPages[c])
          /\ dt' = [dt EXCEPT ![c].pc = "done"]
          /\ ecsCalls' = ecsCalls \cup {<<"ListTasksPages", c, "error">>}
       \/ /\ dt[c].page > Len(taskPages[c])
          /\ dt' = [dt EXCEPT ![c].pc = "close"]
          /\ UNCHANGED ecsCalls
       \/ /\ dt[c].page <= Len(taskPages[c])
          /\ dt' = [dt EXCEPT ![c].pc = "send"]
          /\ ecsCalls' = ecsCalls \cup {<<"ListTasksPages", c, "ok">>}
    /\ UNCHANGED <<world, run, dc, mc, payload, logged, possible>>

(* ListTasksPages asks for the next page, if the listing has one.  The      *)
(* request fails, or there is no further page and no request, or the page   *)
(* is handed to the callback.                                               *)
DiscoverTasksFetch(c) ==
    /\ dt[c].pc = "fetch"
    /\ \/ /\ dt[c].page <= Len(taskPages[c])
          /\ dt' = [dt EXCEPT ![c].pc = "close"]                \* err != nil, logged
          /\ ecsCalls' = ecsCalls \cup {<<"ListTasksPages", c, "error">>}
       \/ /\ dt[c].page > Len(taskPages[c])
          /\ dt' = [dt EXCEPT ![c].pc = "close"]
          /\ UNCHANGED ecsCalls
       \/ /\ dt[c].page <= Len(taskPages[c])
          /\ dt' = [dt EXCEPT ![c].pc = "send"]
          /\ ecsCalls' = ecsCalls \cup {<<"ListTasksPages", c, "ok">>}
    /\ UNCHANGED <<world, run, dc, mc, payload, logged, possible>>

DiscoverTasksSend_Always(c) ==
    /\ dt[c].pc = "send"
    /\ mc[c].pc = "range"
    /\ LET page == taskPages[c][dt[c].page]
       IN  /\ mc' = [mc EXCEPT ![c].pc = "measure", ![c].tasks = page,
                               ![c].batches = mc[c].batches + 1]
           /\ dt' = [dt EXCEPT ![c].pc = "fetch", ![c].page = dt[c].page + 1]
    /\ UNCHANGED <<world, run, dc, ecsCalls, payload, logged, possible>>

(* com <- page.TaskArns, received by the range loop of MeasureCluster; the  *)
(* callback then returns len(page.TaskArns) > 0.                            *)
DiscoverTasksSend(c) ==
    /\ dt[c].pc = "send"
    /\ mc[c].pc = "range"
    /\ LET page == taskPages[c][dt[c].page]
       IN  /\ mc' = [mc EXCEPT ![c].pc = "measure", ![c].tasks = page,
                               ![c].batches = mc[c].batches + 1]
           /\ dt' = [dt EXCEPT ![c].pc = IF Len(page) > 0 THEN "fetch" ELSE "close",
                               ![c].page = dt[c].page + 1]
    /\ UNCHANGED <<world, run, dc, ecsCalls, payload, logged, possible>>

DiscoverTasksClose(c) ==
    /\ dt[c].pc = "close"
    /\ dt' = [dt EXCEPT ![c].pc = "done", ![c].closed = TRUE]
    /\ UNCHANGED <<world, run, dc, mc, ecsCalls, payload, logged, possible>>

----------------------------------------------------------------------------
(* MeasureCluster(cluster).                                                 *)

(* sn.DiscoverTasks(cluster): the channel is made and the goroutine started. *)
MeasureClusterStart(c) ==
    /\ mc[c].pc = "start"
    /\ mc' = [mc EXCEPT ![c].pc = "range", ![c].cpu = 0, ![c].memory = 0]
    /\ dt' = [dt EXCEPT ![c] = [pc |-> "fetch", page |-> 1, closed |-> FALSE]]
    /\ UNCHANGED <<world, run, dc, ecsCalls, payload, logged, possible>>

(* The body of the range loop: MeasureResources on the batch received, and  *)
(* the two running maxima.                                                  *)
MeasureClusterBatch(c) ==
    /\ mc[c].pc = "measure"
    /\ \E failed \in BOOLEAN :
          LET cohort == MeasureResources(mc[c].tasks, failed)
          IN  /\ ecsCalls' = ecsCalls \cup {<<"DescribeTasks", c, Outcome(failed)>>}
              /\ mc' = [mc EXCEPT
                  ![c].pc = "range",
                  ![c].cpu = IF cohort[1] > mc[c].cpu THEN cohort[1] ELSE mc[c].cpu,
                  ![c].memory = IF cohort[2] > mc[c].memory THEN cohort[2] ELSE mc[c].memory,
                  ![c].described = IF failed THEN mc[c].described
                                   ELSE mc[c].described \cup {mc[c].batches}]
    /\ UNCHANGED <<world, run, dc, dt, payload, logged, possible>>

MeasureClusterSkip_Both(c) == mc[c].cpu = 0 /\ mc[c].memory = 0

MeasureClusterSkip_OnlyMemory(c) == mc[c].memory = 0

(* cpu == 0 || memory == 0                                                  *)
MeasureClusterSkip(c) == mc[c].cpu = 0 \/ mc[c].memory = 0

MeasureClusterRangeEnd_Early(c) ==
    /\ mc[c].pc = "range"
    /\ mc[c].batches > 0
    /\ mc' = [mc EXCEPT
            ![c].pc = IF MeasureClusterSkip(c) THEN "returned" ELSE "list",
            ![c].result = <<>>]
    /\ UNCHANGED <<world, run, dc, dt, ecsCalls, payload, logged, possible>>

(* The channel is closed and drained: the loop ends.  A cluster with no     *)
(* footprint is skipped.                                                    *)
MeasureClusterRangeEnd(c) ==
    /\ mc[c].pc = "range"
    /\ dt[c].closed
    /\ mc' = [mc EXCEPT
            ![c].pc = IF MeasureClusterSkip(c) THEN "returned" ELSE "list",
            ![c].result = <<>>]
    /\ UNCHANGED <<world, run, dc, dt, ecsCalls, payload, logged, possible>>

ListContainerInstancesInput_AnyStatus(cluster) == [Cluster |-> cluster, Status |-> Nil]

(* The request of ListContainerInstances: the cluster, Status "ACTIVE".     *)
ListContainerInstancesInput(cluster) == [Cluster |-> cluster, Status |-> "ACTIVE"]

(* What the account answers: the ARNs (here the positions in the account)   *)
(* of the cluster's instances in the status asked for, of all of them when  *)
(* no status is given.                                                      *)
ContainerInstanceArns(input) ==
    SelectSeq([j \in 1..Len(containerInstances[input.Cluster]) |-> j],
              LAMBDA j : \/ input.Status = Nil
                         \/ containerInstances[input.Cluster][j].Status = input.Status)

ListContainerInstances_Abort(c) ==
    /\ mc[c].pc = "list"
    /\ \E failed \in BOOLEAN :
          /\ ecsCalls' = ecsCalls \cup {<<"ListContainerInstances", c, Outcome(failed)>>}
          /\ mc' = [mc EXCEPT
              ![c].pc = IF failed THEN "aborted" ELSE "describe",
              ![c].arns = ContainerInstanceArns(ListContainerInstancesInput(c))]
    /\ UNCHANGED <<world, run, dc, dt, payload, logged, possible>>

(* ListContainerInstances: the ARNs of the active instances, none when the  *)
(* call fails.                                                              *)
ListContainerInstances(c) ==
    /\ mc[c].pc = "list"
    /\ \E failed \in BOOLEAN :
          /\ ecsCalls' = ecsCalls \cup {<<"ListContainerInstances", c, Outcome(failed)>>}
          /\ mc' = [mc EXCEPT
              ![c].pc = "describe",
              ![c].arns = IF failed THEN <<>>
                          ELSE ContainerInstanceArns(ListContainerInstancesInput(c))]
    /\ UNCHANGED <<world, run, dc, dt, payload, logged, possible>>

(* DescribeResourcesByInstanceType up to its loop: a new ledger, and        *)
(* DescribeContainerInstances, which gives no instance when it fails.       *)
DescribeContainerInstances(c) ==
    /\ mc[c].pc = "describe"
    /\ \E failed \in BOOLEAN :
          /\ ecsCalls' = ecsCalls \cup {<<"DescribeContainerInstances", c, Outcome(failed)>>}
          /\ mc' = [mc EXCEPT
              ![c].pc = "loop",
              ![c].cr = NewClusterResources(c),
              ![c].k = 0,
              ![c].containers = IF failed THEN <<>>
                                ELSE [j \in 1..Len(mc[c].arns) |->
                                        containerInstances[c][mc[c].arns[j]]]]
    /\ UNCHANGED <<world, run, dc, dt, payload, logged, possible>>

(* One turn of the loop over the container instances.                       *)
DescribeResourcesLoop(c) ==
    /\ mc[c].pc = "loop"
    /\ mc[c].k < Len(mc[c].containers)
    /\ mc' = [mc EXCEPT
            ![c].k = mc[c].k + 1,
            ![c].cr = RecordInstance(mc[c].cr, mc[c].containers[mc[c].k + 1],
                                     mc[c].cpu, mc[c].memory)]
    /\ UNCHANGED <<world, run, dc, dt, ecsCalls, payload, logged, possible>>

(* return cr.ToMetricData()                                                 *)
DescribeResourcesReturn(c) ==
    /\ mc[c].pc = "loop"
    /\ mc[c].k = Len(mc[c].containers)
    /\ \E metricData \in ToMetricData(mc[c].cr) :
          mc' = [mc EXCEPT ![c].pc = "returned", ![c].result = metricData]
    /\ UNCHANGED <<world, run, dc, dt, ecsCalls, payload, logged, possible>>

----------------------------------------------------------------------------
(* DiscoverClusters(): a goroutine pages through the cluster ARNs and sends *)
(* each cluster's name on an unbuffered channel, then closes it.            *)

DiscoverClustersFetch ==
    /\ dc.pc = "fetch"
    /\ \/ /\ dc.page <= Len(clusterPages)
          /\ dc' = [dc EXCEPT !.pc = "close"]                   \* err != nil, logged
          /\ ecsCalls' = ecsCalls \cup {<<"ListClustersPages", "", "error">>}
       \/ /\ dc.page > Len(clusterPages)
          /\ dc' = [dc EXCEPT !.pc = "close"]
          /\ UNCHANGED ecsCalls
       \/ /\ dc.page <= Len(clusterPages)
          /\ dc' = [dc EXCEPT
                !.pc = IF Len(clusterPages[dc.page]) > 0 THEN "send" ELSE "close",
                !.arn = 1]
          /\ ecsCalls' = ecsCalls \cup {<<"ListClustersPages", "", "ok">>}
    /\ UNCHANGED <<world, run, dt, mc, payload, logged, possible>>

(* com <- name, received by the range loop of Measure, whose body starts    *)
(* the cluster's goroutine and counts it.                                   *)
DiscoverClustersSend ==
    /\ dc.pc = "send"
    /\ run.pc = "range"
    /\ LET page == clusterPages[dc.page]
           cluster == ClusterName(page[dc.arn])
       IN  /\ dc' = [dc EXCEPT
                  !.emitted = Append(dc.emitted, cluster),
                  !.arn = IF dc.arn < Len(page) THEN dc.arn + 1 ELSE 1,
                  !.page = IF dc.arn < Len(page) THEN dc.page ELSE dc.page + 1,
                  !.pc = IF dc.arn < Len(page) THEN "send" ELSE "fetch"]
           /\ mc' = [mc EXCEPT ![cluster].pc = "start"]
           /\ run' = [run EXCEPT !.numClusters = run.numClusters + 1]
    /\ UNCHANGED <<world, dt, ecsCalls, payload, logged, possible>>

DiscoverClustersClose ==
    /\ dc.pc = "close"
    /\ dc' = [dc EXCEPT !.pc = "done", !.closed = TRUE]
    /\ UNCHANGED <<world, run, dt, mc, ecsCalls, payload, logged, possible>>

----------------------------------------------------------------------------
(* Run and Measure, on the main goroutine.                                  *)

(* Run: WithAWS, then Measure makes its result channel and calls            *)
(* DiscoverClusters.                                                        *)
RunStart ==
    /\ run.pc = "run"
    /\ run' = [run EXCEPT !.pc = "range", !.numClusters = 0, !.metricData = <<>>]
    /\ dc' = [dc EXCEPT !.pc = "fetch", !.page = 1]
    /\ UNCHANGED <<world, dt, mc, ecsCalls, payload, logged, possible>>

(* The cluster channel is closed and drained: the first loop ends.          *)
MeasureRangeEnd ==
    /\ run.pc = "range"
    /\ dc.closed
    /\ run' = [run EXCEPT !.pc = "collect", !.i = 0]
    /\ UNCHANGED <<world, dc, dt, mc, ecsCalls, payload, logged, possible>>

Collect_Replace(metricData, received) == received

(* metricData = append(metricData, <-com...)                                *)
Collect(metricData, received) == metricData \o received

(* One turn of the second loop: a cluster's goroutine sends what            *)
(* MeasureCluster returned, and Measure appends it.                         *)
MeasureCollect(c) ==
    /\ run.pc = "collect"
    /\ run.i < run.numClusters
    /\ mc[c].pc = "returned"
    /\ run' = [run EXCEPT !.i = run.i + 1,
                          !.metricData = Collect(run.metricData, mc[c].result)]
    /\ mc' = [mc EXCEPT ![c].pc = "done"]
    /\ UNCHANGED <<world, dc, dt, ecsCalls, payload, logged, possible>>

MeasureReturn_OneShort ==
    /\ run.pc = "collect"
    /\ run.i >= run.numClusters - 1
    /\ run' = [run EXCEPT !.pc = "measured", !.comClosed = TRUE]
    /\ UNCHANGED <<world, dc, dt, mc, ecsCalls, payload, logged, possible>>

(* Measure returns: the deferred close(com).                                *)
MeasureReturn ==
    /\ run.pc = "collect"
    /\ run.i >= run.numClusters
    /\ run' = [run EXCEPT !.pc = "measured", !.comClosed = TRUE]
    /\ UNCHANGED <<world, dc, dt, mc, ecsCalls, payload, logged, possible>>

RunShouldPublish_Always == TRUE

(* if *sn.ShouldPublish                                                     *)
RunShouldPublish == ShouldPublish

(* Back in Run: Publish is called, or Run returns.                          *)
RunPublish ==
    /\ run.pc = "measured"
    /\ run' = IF RunShouldPublish
              THEN [run EXCEPT !.pc = "publish", !.publishes = run.publishes + 1,
                               !.input = run.metricData, !.at = 0]
              ELSE [run EXCEPT !.pc = "done"]
    /\ UNCHANGED <<world, dc, dt, mc, ecsCalls, payload, logged, possible>>

----------------------------------------------------------------------------
(* Publish(metricData).                                                     *)

BatchEnd_Overlap(i, n) == IF i + batchSize + 1 > n THEN n ELSE i + batchSize + 1

(* end := i + batchSize, cut to len(metricData)                             *)
BatchEnd(i, n) == IF i + batchSize > n THEN n ELSE i + batchSize

(* metricData[i:end]                                                        *)
Batch(metricData, i) == SubSeq(metricData, i + 1, BatchEnd(i, Len(metricData)))

PutsInvalid_Anyway(input) == TRUE

(* The batch goes to PutMetricData only if input.Validate() gives no error. *)
Puts(input) == Validate(input)

NextBatch_Retry(i, failed) == IF failed THEN i ELSE i + batchSize

(* i += batchSize, whatever became of the batch                             *)
NextBatch(i, failed) == i + batchSize

(* One turn of the loop: the batch is validated, then put, and the outcome  *)
(* logged.                                                                  *)
PublishBatch ==
    /\ run.pc = "publish"
    /\ run.at < Len(run.input)
    /\ LET input == [Namespace |-> Namespace, MetricData |-> Batch(run.input, run.at)]
       IN  IF ~Puts(input)
           THEN /\ logged' = Append(logged, [event |-> "invalid", input |-> input])
                /\ run' = [run EXCEPT !.at = NextBatch(run.at, FALSE)]
                /\ UNCHANGED payload
           ELSE /\ payload' = Append(payload, input)
                /\ \E failed \in BOOLEAN :
                      /\ logged' = Append(logged, [event |-> IF failed THEN "failed" ELSE "published",
                                                   input |-> input])
                      /\ run' = [run EXCEPT !.at = NextBatch(run.at, failed)]
    /\ UNCHANGED <<world, dc, dt, mc, ecsCalls, possible>>

PublishReturn ==
    /\ run.pc = "publish"
    /\ run.at >= Len(run.input)
    /\ run' = [run EXCEPT !.pc = "done"]
    /\ UNCHANGED <<world, dc, dt, mc, ecsCalls, payload, logged, possible>>

----------------------------------------------------------------------------
(* The program from main: Run with the flags -n and -p.                     *)

NameFake == ClusterName(ArnFake)
NameAnother == ClusterName(ArnAnother)

(* What a listed cluster may hold: no task and no instance, or tasks on    *)
(* one page and a container instance.                                      *)
NoHoldings == [tasks |-> << <<>> >>, instances |-> <<>>]

RunClusterHoldings ==
    {NoHoldings,
     [tasks |-> << <<Task("2", "1"), Task("invalidCPU", "3")>> >>,
      instances |-> <<ContainerInstance(<<TypeAttr("fake.2xlarge")>>,
                                        <<Resource("CPU", 4), Resource("MEMORY", 4)>>,
                                        <<Resource("CPU", 2), Resource("MEMORY", 3)>>)>>]}

RunClusterListings ==
    {<< <<>> >>,
     << <<ArnFake>> >>,
     << <<ArnFake, ArnAnother>> >>,
     << <<ArnAnother>>, <<ArnFake>> >>}

(* The flags of main: -p with or without -n, or neither.                    *)
RunFlags ==
    {[n |-> "", p |-> FALSE], [n |-> "", p |-> TRUE], [n |-> "Collector/Test", p |-> TRUE]}

Listed(pages) == {ClusterName(arn) : arn \in UNION {Range(pages[j]) : j \in 1..Len(pages)}}

Init ==
    /\ clusterPages \in RunClusterListings
    /\ \E holds \in [Clusters -> RunClusterHoldings] :
          /\ \A c \in Clusters \ Listed(clusterPages) : holds[c] = NoHoldings
          /\ taskPages = [c \in Clusters |-> holds[c].tasks]
          /\ containerInstances = [c \in Clusters |-> holds[c].instances]
    /\ \E flags \in RunFlags : Namespace = flags.n /\ ShouldPublish = flags.p
    /\ run = [NoRun EXCEPT !.pc = "run"]
    /\ dc = NoDiscoverClusters
    /\ dt = [c \in Clusters |-> NoDiscoverTasks]
    /\ mc = [c \in Clusters |-> NoMeasureCluster]
    /\ NothingSent
    /\ possible = NoCall

ClusterStep(c) ==
    \/ MeasureClusterStart(c)
    \/ DiscoverTasksFetch(c)
    \/ DiscoverTasksSend(c)
    \/ DiscoverTasksClose(c)
    \/ MeasureClusterBatch(c)
    \/ MeasureClusterRangeEnd(c)
    \/ ListContainerInstances(c)
    \/ DescribeContainerInstances(c)
    \/ DescribeResourcesLoop(c)
    \/ DescribeResourcesReturn(c)

Next ==
    \/ RunStart
    \/ DiscoverClustersFetch
    \/ DiscoverClustersSend
    \/ DiscoverClustersClose
    \/ MeasureRangeEnd
    \/ \E c \in Clusters : ClusterStep(c)
    \/ \E c \in Clusters : MeasureCollect(c)
    \/ MeasureReturn
    \/ RunPublish
    \/ PublishBatch
    \/ PublishReturn

Spec == Init /\ [][Next]_vars

----------------------------------------------------------------------------
(* Run under a scheduler that lets no goroutine able to take a step wait    *)
(* for ever, and with calls that all return: the Go runtime runs every      *)
(* runnable goroutine, and a goroutine blocked on a channel becomes         *)
(* runnable when its partner arrives.  Only one cluster holds container     *)
(* instances; the other has no task, or a task and an empty second page of  *)
(* its task listing.                                                        *)

FairClusterHoldings ==
    {NoHoldings,
     [tasks |-> << <<Task("2", "1")>>, <<>> >>, instances |-> <<>>]}

FairClusterListings ==
    {<< <<ArnFake, ArnAnother>> >>,
     << <<ArnAnother>>, <<ArnFake>> >>}

InitFair ==
    /\ clusterPages \in FairClusterListings
    /\ \E holds \in [Clusters -> RunClusterHoldings \cup FairClusterHoldings] :
          /\ \A c \in Clusters \ Listed(clusterPages) : holds[c] = NoHoldings
          /\ holds[NameFake] \in RunClusterHoldings
          /\ holds[NameAnother] \in FairClusterHoldings
          /\ taskPages = [c \in Clusters |-> holds[c].tasks]
          /\ containerInstances = [c \in Clusters |-> holds[c].instances]
    /\ \E flags \in RunFlags : Namespace = flags.n /\ ShouldPublish = flags.p
    /\ run = [NoRun EXCEPT !.pc = "run"]
    /\ dc = NoDiscoverClusters
    /\ dt = [c \in Clusters |-> NoDiscoverTasks]
    /\ mc = [c \in Clusters |-> NoMeasureCluster]
    /\ NothingSent
    /\ possible = NoCall

FairSpec == InitFair /\ [][Next]_vars /\ WF_vars(Next)

----------------------------------------------------------------------------
(* MeasureCluster called on its own, as TestSnitcher_MeasureClusterEmpty    *)
(* does.                                                                    *)

ClusterInstanceChoices ==
    {<<>>} \cup {<<k>> : k \in InstanceKinds}
        \cup {<<Draining(k), k>> : k \in InstanceKinds}
        \cup {<<k, Draining(k), ContainerInstance(<<>>, <<>>, <<>>)>> : k \in InstanceKinds}

InitCluster ==
    /\ clusterPages = <<>>
    /\ taskPages \in [Clusters -> SeqsUpTo(Batches, MaxTaskPages) \ {<<>>}]
    /\ containerInstances \in [Clusters -> ClusterInstanceChoices]
    /\ \A c \in Clusters \ {NameFake} :
          taskPages[c] = << <<>> >> /\ containerInstances[c] = <<>>
    /\ Namespace = Nil /\ ShouldPublish = FALSE
    /\ run = NoRun
    /\ dc = NoDiscoverClusters
    /\ dt = [c \in Clusters |-> NoDiscoverTasks]
    /\ mc = [c \in Clusters |-> IF c = NameFake THEN [NoMeasureCluster EXCEPT !.pc = "start"]
                                ELSE NoMeasureCluster]
    /\ NothingSent
    /\ possible = NoCall

NextCluster == \E c \in Clusters : ClusterStep(c)

SpecCluster == InitCluster /\ [][NextCluster]_vars

----------------------------------------------------------------------------
(* DescribeResourcesByInstanceType called on its own, as                    *)
(* TestSnitcher_DescribeResourcesByInstanceType does: any footprint, the    *)
(* ARNs of the cluster's instances.                                         *)

InitDescribe ==
    /\ clusterPages = <<>>
    /\ taskPages = [c \in Clusters |-> << <<>> >>]
    /\ containerInstances \in [Clusters -> SeqsUpTo(InstanceKinds, MaxInstances)]
    /\ \A c \in Clusters \ {NameFake} : containerInstances[c] = <<>>
    /\ Namespace = Nil /\ ShouldPublish = FALSE
    /\ run = NoRun
    /\ dc = NoDiscoverClusters
    /\ dt = [c \in Clusters |-> NoDiscoverTasks]
    /\ \E unitCpu \in 1..MaxUnit, unitMemory \in 1..MaxUnit :
          mc = [c \in Clusters |->
                  IF c = NameFake
                  THEN [NoMeasureCluster EXCEPT
                          !.pc = "describe", !.cpu = unitCpu, !.memory = unitMemory,
                          !.arns = [j \in 1..Len(containerInstances[c]) |-> j]]
                  ELSE NoMeasureCluster]
    /\ NothingSent
    /\ possible = NoCall

NextDescribe ==
    \E c \in Clusters :
        \/ DescribeContainerInstances(c)
        \/ DescribeResourcesLoop(c)
        \/ DescribeResourcesReturn(c)

SpecDescribe == InitDescribe /\ [][NextDescribe]_vars

----------------------------------------------------------------------------
(* ToMetricData called on a ledger filled by hand, as TestToMetricData      *)
(* and TestSnitcher_Publish do: any entries in any of the four maps.        *)

LedgerTypes == {"my5.InstanceType", "another.fakeInstanceType"}

PartialMaps(values) == UNION {[types -> values] : types \in SUBSET LedgerTypes}

Ledgers ==
    [Cluster : {"my-shiny-cluster"}, CPU : PartialMaps({1024}), Memory : PartialMaps({2048}),
     Registered : PartialMaps({0, 13}), Remaining : PartialMaps({0, 3})]

InitLedger ==
    /\ EmptyAccount
    /\ Namespace = Nil /\ ShouldPublish = FALSE
    /\ run = NoRun
    /\ dc = NoDiscoverClusters
    /\ dt = [c \in Clusters |-> NoDiscoverTasks]
    /\ \E ledger \in Ledgers :
          mc = [c \in Clusters |->
                  IF c = NameFake THEN [NoMeasureCluster EXCEPT !.pc = "loop", !.cr = ledger]
                  ELSE NoMeasureCluster]
    /\ NothingSent
    /\ possible = NoCall

NextLedger == \E c \in Clusters : DescribeResourcesReturn(c)

SpecLedger == InitLedger /\ [][NextLedger]_vars

----------------------------------------------------------------------------
(* Publish called on its own, as TestSnitcher_Publish does: a list of any   *)
(* length, at most one datum of it with no instance type.                   *)

PublishList(n, bad) ==
    [j \in 1..n |-> MetricDatum("RegisteredSchedulable", "ecs-self-publishing-cluster",
                                IF j = bad THEN "" ELSE "fake.instanceType", j)]

InitPublish ==
    /\ EmptyAccount
    /\ Namespace \in Namespaces /\ ShouldPublish = TRUE
    /\ \E n \in 0..MaxPoints : \E bad \in 0..n :
          run = [NoRun EXCEPT !.pc = "publish", !.publishes = 1, !.input = PublishList(n, bad)]
    /\ dc = NoDiscoverClusters
    /\ dt = [c \in Clusters |-> NoDiscoverTasks]
    /\ mc = [c \in Clusters |-> NoMeasureCluster]
    /\ NothingSent
    /\ possible = NoCall

NextPublish == PublishBatch \/ PublishReturn

SpecPublish == InitPublish /\ [][NextPublish]_vars

----------------------------------------------------------------------------
(* Properties.                                                              *)

(* C1: for a footprint (cpu > 0, memory > 0) and any resource vector,       *)
(* ContainersPossible returns min(C, M): C the sum over the entries named   *)
(* "CPU" of value div cpu, M the sum over the entries named "MEMORY" of     *)
(* value div memory, each entry divided before the sum; other entries do    *)
(* not count, and with no CPU entry or no MEMORY entry the result is 0.     *)
NamedEntries(resources, name) == {j \in 1..Len(resources) : resources[j].Name = name}

CapacityBy(resources, name, unit) ==
    SumOver(NamedEntries(resources, name),
            [j \in 1..Len(resources) |-> resources[j].IntegerValue \div unit])

C1_ContainersPossibleIsMin ==
    possible.returned =>
        /\ possible.canSchedule =
              Min2(CapacityBy(possible.resources, "CPU", possible.cpu),
                   CapacityBy(possible.resources, "MEMORY", possible.memory))
        /\ (NamedEntries(possible.resources, "CPU") = {}
              \/ NamedEntries(possible.resources, "MEMORY") = {}) => possible.canSchedule = 0

(* A call with two CPU entries whose separate quotients add up to less than *)
(* the quotient of their sum.                                               *)
C1_Witness ==
    /\ possible.returned
    /\ Cardinality(NamedEntries(possible.resources, "CPU")) = 2
    /\ possible.canSchedule > 0
    /\ possible.canSchedule <
          ContainersPossible_SumThenDivide(possible.cpu, possible.memory, possible.resources)

----------------------------------------------------------------------------
(* What MeasureCluster has seen of a cluster's tasks.                       *)

(* The range loop over the task channel has ended.                          *)
PastRange(c) == mc[c].pc \in {"list", "describe", "loop", "returned", "done"}

(* The tasks of the batches numbered in js, of those delivered so far.      *)
TasksOf(c, js) ==
    UNION {Range(taskPages[c][j]) : j \in js \cap (1..mc[c].batches)}

(* The largest value of a field among tasks, a malformed string counting as *)
(* what strconv.Atoi returns for it, and 0 when there is no larger value.   *)
Largest(tasks, field) ==
    LET values == {Atoi(IF field = "Cpu" THEN t.Cpu ELSE t.Memory).val : t \in tasks} \cup {0}
    IN  CHOOSE m \in values : \A v \in values : v <= m

(* C2, as claimed: the footprint MeasureCluster uses is the largest CPU and *)
(* the largest memory over every task of every batch DiscoverTasks          *)
(* delivered.  It fails when DescribeTasks fails for a batch: that batch    *)
(* counts as (0, 0).                                                        *)
C2_FootprintOverDelivered ==
    \A c \in Clusters :
        PastRange(c) =>
            /\ mc[c].cpu = Largest(TasksOf(c, 1..mc[c].batches), "Cpu")
            /\ mc[c].memory = Largest(TasksOf(c, 1..mc[c].batches), "Memory")

(* C2, amended: the footprint is, per field and independently, the largest  *)
(* value over the tasks of the delivered batches whose DescribeTasks call   *)
(* succeeded (at least 0), whatever the order of tasks and batches.         *)
C2_FootprintOverDescribed ==
    \A c \in Clusters :
        PastRange(c) =>
            /\ mc[c].cpu = Largest(TasksOf(c, mc[c].described), "Cpu")
            /\ mc[c].memory = Largest(TasksOf(c, mc[c].described), "Memory")

(* The CPU maximum is reached only in one batch and the memory maximum only *)
(* in another, and within a batch by different tasks.                       *)
C2_Witness ==
    \E c \in Clusters :
        /\ PastRange(c)
        /\ mc[c].described = {1, 2}
        /\ mc[c].cpu > 0 /\ mc[c].memory > 0
        /\ \E j \in {1, 2} :
              /\ Largest(TasksOf(c, {j}), "Cpu") = mc[c].cpu
              /\ Largest(TasksOf(c, {j}), "Memory") < mc[c].memory
              /\ Largest(TasksOf(c, {3 - j}), "Cpu") < mc[c].cpu
              /\ Largest(TasksOf(c, {3 - j}), "Memory") = mc[c].memory
        /\ \A t \in TasksOf(c, {1, 2}) :
              ~(Atoi(t.Cpu).val = mc[c].cpu /\ Atoi(t.Memory).val = mc[c].memory)

(* C3: when the task stream is exhausted and the CPU maximum or the memory  *)
(* maximum is zero, MeasureCluster returns no metric data and calls neither *)
(* ListContainerInstances nor DescribeContainerInstances for the cluster.   *)
C3_NoFootprintNoCapacityPhase ==
    \A c \in Clusters :
        (PastRange(c) /\ (mc[c].cpu = 0 \/ mc[c].memory = 0)) =>
            /\ mc[c].pc \in {"returned", "done"}
            /\ mc[c].result = <<>>
            /\ ~Called("ListContainerInstances", c)
            /\ ~Called("DescribeContainerInstances", c)

(* A cluster with container instances skipped with only the memory maximum  *)
(* positive.                                                                *)
C3_Witness ==
    \E c \in Clusters :
        /\ mc[c].pc = "returned"
        /\ mc[c].cpu = 0 /\ mc[c].memory > 0
        /\ containerInstances[c] # <<>>
        /\ mc[c].result = <<>>

----------------------------------------------------------------------------
(* What Publish is expected to make of its list.                            *)

(* ceil(n / 20)                                                             *)
BatchCount(n) == (n + 19) \div 20

(* The j-th run of 20 consecutive data of a list, the last one shorter.     *)
Slice(metricData, j) ==
    SubSeq(metricData, 20 * (j - 1) + 1, Min2(20 * j, Len(metricData)))

(* The batches handled so far, in the order of the log.                     *)
Handled == [j \in 1..Len(logged) |-> logged[j].input.MetricData]

PublishOver == run.pc = "done" /\ run.publishes > 0

(* C4: Publish forms ceil(n/20) batches of a list of n data: consecutive    *)
(* slices in input order, 20 data in each but the last, 1 to 20 in the      *)
(* last, so that every datum is in exactly one batch; no batch and no       *)
(* submission for an empty list; every batch submitted carries the          *)
(* configured namespace.                                                    *)
C4_BatchesOfTwenty ==
    /\ \A j \in 1..Len(payload) : payload[j].Namespace = Namespace
    /\ PublishOver =>
          /\ Len(logged) = BatchCount(Len(run.input))
          /\ Flatten(Handled) = run.input
          /\ \A j \in 1..Len(logged) :
                /\ Len(Handled[j]) \in 1..20
                /\ j < Len(logged) => Len(Handled[j]) = 20
          /\ run.input = <<>> => logged = <<>> /\ payload = <<>>

(* 45 data published in batches of 20, 20 and 5.                            *)
C4_Witness ==
    /\ PublishOver
    /\ Len(run.input) = 45
    /\ Len(payload) = 3
    /\ [j \in 1..3 |-> Len(payload[j].MetricData)] = <<20, 20, 5>>
    /\ Namespace = "Collector/Test"

(* C9: a batch that fails validation is never submitted: none of its data   *)
(* reaches the metrics backend, the failure is only logged, and Publish     *)
(* goes on to the next batch.                                               *)
C9_InvalidBatchDropped ==
    /\ \A j \in 1..Len(logged) :
          ~Validate(logged[j].input) =>
              /\ logged[j].event = "invalid"
              /\ \A k \in 1..Len(payload) :
                    Range(payload[k].MetricData) \cap Range(logged[j].input.MetricData) = {}
    /\ \A k \in 1..Len(payload) : Validate(payload[k])
    /\ PublishOver => Len(logged) = BatchCount(Len(run.input))

(* A first batch dropped for one datum without instance type, the batches   *)
(* after it submitted.                                                      *)
C9_Witness ==
    /\ PublishOver
    /\ Len(logged) = 3
    /\ logged[1].event = "invalid"
    /\ \E d \in Range(logged[1].input.MetricData) : ValidDatum(d)
    /\ Len(payload) = 2
    /\ payload[1].MetricData = Slice(run.input, 2)

(* C10: whatever the backend answers, every batch that passes validation    *)
(* is submitted exactly once, in batch order, and Publish returns.          *)
C10_SubmittedOnceInOrder ==
    LET done == Len(logged)
        valid == SelectSeq([j \in 1..Min2(done, BatchCount(Len(run.input))) |->
                              [Namespace |-> Namespace, MetricData |-> Slice(run.input, j)]],
                           Validate)
    IN  /\ payload = valid
        /\ run.publishes > 0 => 20 * done = run.at
        /\ PublishOver => done = BatchCount(Len(run.input))

(* A batch rejected by the backend, and the two after it submitted.         *)
C10_Witness ==
    /\ PublishOver
    /\ Len(logged) = 3
    /\ logged[1].event = "failed"
    /\ logged[2].event = "failed"
    /\ logged[3].event = "published"
    /\ Len(payload) = 3

----------------------------------------------------------------------------
(* The ledger and the data made of it.                                      *)

(* The (metric name, instance type) entries a ledger holds.                 *)
Entries(cr) ==
    UNION {{<<n, t>> : t \in DOMAIN Resources(cr)[n]} : n \in MetricNames}

(* The places of a list holding a datum of metric name n and type t.        *)
DataFor(metricData, n, t) ==
    {j \in 1..Len(metricData) :
        /\ metricData[j].MetricName = n
        /\ \E d \in 1..Len(metricData[j].Dimensions) :
              metricData[j].Dimensions[d] = [Name |-> "InstanceType", Value |-> t]}

(* C5: ToMetricData gives exactly one datum for each (metric name,          *)
(* instance type) entry of the ledger and no other; each has the two        *)
(* dimensions ClusterName = the ledger's cluster and InstanceType = the      *)
(* entry's type, unit Count, and the entry's stored integer as value; k     *)
(* types in all four maps give 4*k data.                                    *)
C5_OneDatumPerEntry ==
    \A c \in Clusters :
        mc[c].pc = "returned" =>
            LET cr == mc[c].cr
                metricData == mc[c].result
            IN  /\ Len(metricData) = Cardinality(Entries(cr))
                /\ \A e \in Entries(cr) : Cardinality(DataFor(metricData, e[1], e[2])) = 1
                /\ \A j \in 1..Len(metricData) :
                      LET datum == metricData[j]
                      IN  /\ Len(datum.Dimensions) = 2
                          /\ datum.Dimensions[1] = [Name |-> "ClusterName", Value |-> cr.Cluster]
                          /\ datum.Dimensions[2].Name = "InstanceType"
                          /\ <<datum.MetricName, datum.Dimensions[2].Value>> \in Entries(cr)
                          /\ datum.Unit = "Count"
                          /\ datum.Value =
                                Resources(cr)[datum.MetricName][datum.Dimensions[2].Value]
                /\ \A k \in 0..Cardinality(DOMAIN cr.CPU) :
                      (\A n \in MetricNames : Cardinality(DOMAIN Resources(cr)[n]) = k)
                          => Len(metricData) = 4 * k

(* Two types in all four maps, their counters different: eight data.        *)
C5_Witness ==
    LET cr == mc[NameFake].cr
    IN  /\ mc[NameFake].pc = "returned"
        /\ \A n \in MetricNames : DOMAIN Resources(cr)[n] = LedgerTypes
        /\ cr.Registered["my5.InstanceType"] = 13
        /\ cr.Registered["another.fakeInstanceType"] = 0
        /\ Len(mc[NameFake].result) = 8

(* The container instances the loop has been through.                       *)
Processed(c) == SubSeq(mc[c].containers, 1, mc[c].k)

(* The places of a list holding an instance of type t.                      *)
OfType(containers, t) ==
    {j \in 1..Len(containers) : getInstanceType(containers[j].Attributes) = t}

(* C6: once DescribeResourcesByInstanceType has been through a sequence of  *)
(* container instances with footprint (cpu, memory), for every instance     *)
(* type T of the sequence the CPU entry of T is cpu and the memory entry is *)
(* memory (not a sum over the instances), the registered entry is the sum   *)
(* of ContainersPossible(cpu, memory, registered resources) over the        *)
(* instances of type T and the remaining entry the same sum over the        *)
(* remaining resources.                                                     *)
C6_LedgerPerType ==
    \A c \in Clusters :
        mc[c].pc \in {"loop", "returned"} =>
            LET containers == Processed(c)
                cr == mc[c].cr
                cpu == mc[c].cpu
                memory == mc[c].memory
            IN  \A j \in 1..Len(containers) :
                    LET T == getInstanceType(containers[j].Attributes)
                    IN  /\ T \in DOMAIN cr.CPU /\ cr.CPU[T] = cpu
                        /\ T \in DOMAIN cr.Memory /\ cr.Memory[T] = memory
                        /\ T \in DOMAIN cr.Registered
                        /\ cr.Registered[T] =
                              SumOver(OfType(containers, T),
                                      [i \in 1..Len(containers) |->
                                         ContainersPossible(cpu, memory,
                                                            containers[i].RegisteredResources)])
                        /\ T \in DOMAIN cr.Remaining
                        /\ cr.Remaining[T] =
                              SumOver(OfType(containers, T),
                                      [i \in 1..Len(containers) |->
                                         ContainersPossible(cpu, memory,
                                                            containers[i].RemainingResources)])

(* Two different instances of one type, both with room, all gone through.   *)
C6_Witness ==
    LET containers == Processed(NameFake)
    IN  /\ mc[NameFake].pc = "returned"
        /\ Len(containers) = 2
        /\ containers[1] # containers[2]
        /\ OfType(containers, "fake.2xlarge") = {1, 2}
        /\ mc[NameFake].cr.Registered["fake.2xlarge"] > 1
        /\ mc[NameFake].cr.Remaining["fake.2xlarge"] > 1
        /\ mc[NameFake].cr.CPU["fake.2xlarge"] = mc[NameFake].cpu

----------------------------------------------------------------------------
(* Run and Measure.                                                         *)

MeasureOver == run.pc \in {"measured", "publish", "done"}

(* C7: Run submits to the metrics backend only when the publish flag is     *)
(* true: with the flag false there is no PutMetricData call and no call of  *)
(* Publish in any execution, whatever was measured; with the flag true      *)
(* Publish is called exactly once, after Measure has returned, with         *)
(* exactly the data Measure returned.                                       *)
C7_PublishOnlyOnFlag ==
    /\ ~ShouldPublish => payload = <<>> /\ logged = <<>> /\ run.publishes = 0
    /\ run.publishes \in {0, 1}
    /\ run.publishes = 1 =>
          /\ ShouldPublish
          /\ run.pc \in {"publish", "done"}
          /\ run.comClosed
          /\ run.input = run.metricData
    /\ (run.pc = "done" /\ ShouldPublish) => run.publishes = 1

(* Run is over with the flag false, two clusters measured, nothing sent.    *)
C7_Witness ==
    /\ run.pc = "done"
    /\ ~ShouldPublish
    /\ Len(run.metricData) = 8
    /\ payload = <<>>

(* The clusters whose goroutine has been started / has handed its result    *)
(* over.                                                                    *)
Started == {c \in Clusters : mc[c].pc # "none"}
Delivered == {c \in Clusters : mc[c].pc = "done"}

(* How often a datum occurs in a list.                                      *)
Occurrences(metricData, datum) ==
    Cardinality({j \in 1..Len(metricData) : metricData[j] = datum})

(* C8: Measure starts one MeasureCluster goroutine for each cluster name    *)
(* DiscoverClusters sends, receives as many results as it started, and      *)
(* returns, as a multiset, the union of the lists those goroutines          *)
(* returned: in every interleaving each datum occurs as often as in the     *)
(* clusters' lists together.                                                *)
C8_FanInKeepsEveryDatum ==
    /\ run.numClusters = Len(dc.emitted)
    /\ Started = Range(dc.emitted)
    /\ Cardinality(Started) = Len(dc.emitted)
    /\ run.pc \in {"collect", "measured", "publish", "done"} =>
          /\ run.i = Cardinality(Delivered)
          /\ Len(run.metricData) =
                SumOver(Delivered, [c \in Clusters |-> Len(mc[c].result)])
          /\ \A datum \in Range(run.metricData) \cup UNION {Range(mc[c].result) : c \in Delivered} :
                Occurrences(run.metricData, datum) =
                    SumOver(Delivered, [c \in Clusters |-> Occurrences(mc[c].result, datum)])
    /\ MeasureOver =>
          /\ run.i = run.numClusters
          /\ Delivered = Started

(* Two clusters, each with four data, the second one listed collected       *)
(* first.                                                                   *)
C8_Witness ==
    /\ MeasureOver
    /\ dc.emitted = <<NameFake, NameAnother>>
    /\ Len(mc[NameFake].result) = 4
    /\ Len(mc[NameAnother].result) = 4
    /\ Len(run.metricData) = 8
    /\ run.metricData[1].Dimensions[1].Value = NameAnother

----------------------------------------------------------------------------
(* Malformed CPU and memory strings.                                        *)

(* What a task counts for in a field when a string strconv.Atoi gives an    *)
(* error for counts as zero.                                                *)
ParsedOrZero(s) == IF Atoi(s).err = Nil THEN Atoi(s).val ELSE 0

LargestParsed(tasks, field) ==
    LET values == {ParsedOrZero(IF field = "Cpu" THEN t.Cpu ELSE t.Memory) : t \in tasks} \cup {0}
    IN  CHOOSE m \in values : \A v \in values : v <= m

(* C11: a task whose CPU or memory string cannot be parsed as an integer    *)
(* counts as zero in the running maximum of that field and never raises     *)
(* the footprint, while its other field and the other tasks still count:    *)
(* the footprint is the largest parsed value per field.  It fails for a     *)
(* string of digits too large for an int: strconv.Atoi gives a range error  *)
(* together with the largest int, which MeasureResources goes on to use.    *)
C11_MalformedCountsZero ==
    \A c \in Clusters :
        PastRange(c) =>
            /\ mc[c].cpu = LargestParsed(TasksOf(c, mc[c].described), "Cpu")
            /\ mc[c].memory = LargestParsed(TasksOf(c, mc[c].described), "Memory")

----------------------------------------------------------------------------
(* Failing calls.                                                           *)

RunOver == run.pc = "done"

(* Every ECS call made so far has failed.                                   *)
EveryCallFailed == \A call \in ecsCalls : call[3] = "error"

(* C12: whichever calls fail (listing clusters, listing or describing       *)
(* tasks, listing or describing container instances, validation,            *)
(* submission), Measure and Run return; and when every ECS call has failed  *)
(* Measure returns no metric data and nothing is submitted.                 *)
C12_FailuresNeverSurface ==
    /\ <>RunOver
    /\ [](MeasureOver => run.i = run.numClusters /\ run.comClosed)
    /\ []((MeasureOver /\ EveryCallFailed) => (run.metricData = <<>> /\ payload = <<>>))

(* Run is over after a failed page of a task listing, a failed              *)
(* DescribeTasks and a rejected submission.                                 *)
C12_Witness ==
    /\ RunOver
    /\ <<"ListTasksPages", NameAnother, "error">> \in ecsCalls
    /\ <<"DescribeTasks", NameAnother, "error">> \in ecsCalls
    /\ Len(logged) = 1 /\ logged[1].event = "failed"

----------------------------------------------------------------------------
(* The two producers and their channels.                                    *)

(* The names of the clusters of the pages before page n of the listing.     *)
NamesBefore(n) ==
    Flatten([j \in 1..Min2(n - 1, Len(clusterPages)) |->
                [i \in 1..Len(clusterPages[j]) |-> ClusterName(clusterPages[j][i])]])

(* C13: the channel of DiscoverClusters and the channel of DiscoverTasks    *)
(* are closed in the end in every execution whose consumer keeps            *)
(* receiving, whether the listing succeeds or fails; each is closed once,   *)
(* nothing is sent on it after the close, and what was emitted before an    *)
(* error has been delivered.                                                *)
C13_ChannelsClosed ==
    /\ <>[](dc.closed /\ \A c \in Clusters : dt[c].pc # "none" => dt[c].closed)
    /\ [](dc.closed => dc.pc = "done" /\ dc.emitted = NamesBefore(dc.page))
    /\ [](\A c \in Clusters :
            /\ dt[c].pc # "none" => mc[c].batches = dt[c].page - 1
            /\ dt[c].closed => dt[c].pc = "done")
    /\ [][(dc.closed => dc' = dc) /\ (\A c \in Clusters : dt[c].closed => dt'[c] = dt[c])]_vars

(* The second page of the cluster listing failed after the first was        *)
(* emitted, and a task listing failed after its first page was delivered:   *)
(* both channels closed.                                                    *)
C13_Witness ==
    /\ dc.closed
    /\ <<"ListClustersPages", "", "error">> \in ecsCalls
    /\ dc.emitted = <<NameAnother>>
    /\ \E c \in Clusters :
          /\ dt[c].closed
          /\ <<"ListTasksPages", c, "error">> \in ecsCalls
          /\ mc[c].batches = 1


(* The ARNs the callback of ListClustersPages has gone through so far.      *)
ArnsEmitted ==
    Flatten(SubSeq(clusterPages, 1, Min2(dc.page - 1, Len(clusterPages))))
        \o (IF dc.pc = "send" THEN SubSeq(clusterPages[dc.page], 1, dc.arn - 1) ELSE <<>>)

(* name is what is left of arn after its first ":cluster/".                 *)
StripsPrefix(arn, name) ==
    /\ \E i \in 1..(Len(arn) - 8) :
          /\ SubSeq(arn, i, i + 8) = ":cluster/"
          /\ \A h \in 1..(i - 1) : SubSeq(arn, h, h + 8) # ":cluster/"
          /\ name = SubSeq(arn, i + 9, Len(arn))
    /\ Len(name) <= Len(arn)
    /\ SubSeq(arn, Len(arn) - Len(name) + 1, Len(arn)) = name

(* C14: DiscoverClusters emits one name for each cluster ARN of each page,  *)
(* in the order of the listing, and each name is its ARN without everything *)
(* up to and including ":cluster/", so that the ARN ends with the name.     *)
C14_OneNamePerArn ==
    /\ Len(dc.emitted) = Len(ArnsEmitted)
    /\ \A j \in 1..Len(dc.emitted) : StripsPrefix(ArnsEmitted[j], dc.emitted[j])
    /\ (/\ dc.closed
        /\ <<"ListClustersPages", "", "error">> \notin ecsCalls
        /\ \A j \in 1..Len(clusterPages) : clusterPages[j] # <<>>)
          => Len(dc.emitted) = Len(Flatten(clusterPages))

(* Two pages of one ARN each, both names emitted, in the order of the pages. *)
C14_Witness ==
    /\ dc.closed
    /\ Len(clusterPages) = 2
    /\ dc.emitted = <<"another-fake-ecs-cluster", "fake-ecs-cluster">>


(* C15: DiscoverTasks emits one batch for each page fetched, in page order, *)
(* the batch being the page's tasks, and the stream ends at a page with no  *)
(* task: that page is the last one requested and the last batch emitted.    *)
C15_OneBatchPerPage ==
    \A c \in Clusters :
        dt[c].pc # "none" =>
            /\ mc[c].batches = dt[c].page - 1
            /\ mc[c].batches <= Len(taskPages[c])
            /\ mc[c].pc = "measure" => mc[c].tasks = taskPages[c][mc[c].batches]
            /\ dt[c].pc = "send" => dt[c].page <= Len(taskPages[c])
            /\ \A j \in 1..(mc[c].batches - 1) : taskPages[c][j] # <<>>
            /\ (mc[c].batches >= 1 /\ taskPages[c][mc[c].batches] = <<>>)
                  => dt[c].pc \in {"close", "done"}

(* A first page with no task delivered as a batch, the channel closed, and  *)
(* the second page of the listing never asked for.                          *)
C15_Witness ==
    \E c \in Clusters :
        /\ dt[c].closed
        /\ Len(taskPages[c]) = 2
        /\ taskPages[c][1] = <<>>
        /\ taskPages[c][2] # <<>>
        /\ mc[c].batches = 1
        /\ PastRange(c)

----------------------------------------------------------------------------
(* The two calls of the capacity phase.                                     *)

(* The positions of a cluster's active instances, in the account's order.   *)
ActiveInstances(c) ==
    SelectSeq([j \in 1..Len(containerInstances[c]) |-> j],
              LAMBDA j : containerInstances[c][j].Status = "ACTIVE")

(* C16: ListContainerInstances asks for the active instances only and gives *)
(* an empty list when its call fails; DescribeContainerInstances gives the  *)
(* descriptions in the order of the answer and an empty list when its call  *)
(* fails; after either failure the cluster's pass still returns, with no    *)
(* metric data.                                                             *)
C16_CapacityCallsFailEmpty ==
    \A c \in Clusters :
        /\ <<"ListContainerInstances", c, "ok">> \in ecsCalls => mc[c].arns = ActiveInstances(c)
        /\ <<"ListContainerInstances", c, "error">> \in ecsCalls => mc[c].arns = <<>>
        /\ <<"DescribeContainerInstances", c, "ok">> \in ecsCalls =>
              mc[c].containers = [j \in 1..Len(mc[c].arns) |-> containerInstances[c][mc[c].arns[j]]]
        /\ <<"DescribeContainerInstances", c, "error">> \in ecsCalls => mc[c].containers = <<>>
        /\ (\/ <<"ListContainerInstances", c, "error">> \in ecsCalls
            \/ <<"DescribeContainerInstances", c, "error">> \in ecsCalls) =>
              /\ mc[c].pc \in {"describe", "loop", "returned", "done"}
              /\ mc[c].pc \in {"returned", "done"} => mc[c].result = <<>>

(* Three instances, one of them being drained: the two active ones listed,  *)
(* their description failed, the pass over with no metric data.             *)
C16_Witness ==
    \E c \in Clusters :
        /\ mc[c].pc = "returned"
        /\ Len(containerInstances[c]) = 3
        /\ mc[c].arns = <<1, 3>>
        /\ <<"DescribeContainerInstances", c, "error">> \in ecsCalls
        /\ mc[c].result = <<>>


(* The capacity phase of a cluster's pass has begun.                        *)
InCapacityPhase(c) ==
    \/ mc[c].pc \in {"list", "describe", "loop"}
    \/ Called("ListContainerInstances", c)
    \/ Called("DescribeContainerInstances", c)

(* C17: in a cluster's pass the footprint phase is over before the capacity *)
(* phase begins: ListContainerInstances and DescribeContainerInstances are  *)
(* called for a cluster only once its task channel is closed and every      *)
(* batch delivered has been measured, and the footprint the capacity phase  *)
(* works with is the final one.                                             *)
C17_FootprintBeforeCapacity ==
    /\ [](\A c \in Clusters :
            InCapacityPhase(c) =>
                /\ dt[c].closed
                /\ mc[c].batches = dt[c].page - 1
                /\ mc[c].pc # "measure"
                /\ mc[c].cpu = Largest(TasksOf(c, mc[c].described), "Cpu")
                /\ mc[c].memory = Largest(TasksOf(c, mc[c].described), "Memory"))
    /\ [][\A c \in Clusters :
            InCapacityPhase(c) =>
                /\ mc'[c].cpu = mc[c].cpu /\ mc'[c].memory = mc[c].memory
                /\ mc'[c].batches = mc[c].batches /\ dt'[c] = dt[c]]_vars

(* The instances are being gone through after two batches, both measured.   *)
C17_Witness ==
    \E c \in Clusters :
        /\ mc[c].pc = "loop"
        /\ mc[c].k = 1
        /\ mc[c].described = {1, 2}
        /\ TasksOf(c, {2}) # {}
        /\ Largest(TasksOf(c, {2}), "Cpu") > Largest(TasksOf(c, {1}), "Cpu")


(* C18: in a pass started by Measure or MeasureCluster ContainersPossible   *)
(* is never called with cpu = 0 or memory = 0, so it never divides by zero, *)
(* whatever the tasks, the strings that do not parse and the calls that     *)
(* fail.                                                                    *)
C18_NoZeroFootprintDivision ==
    \A c \in Clusters :
        (mc[c].pc \in {"list", "describe", "loop"} \/ mc[c].k > 0) =>
            mc[c].cpu > 0 /\ mc[c].memory > 0

(* An instance has been through ContainersPossible in a pass where a        *)
(* DescribeTasks call failed and a CPU string did not parse.                *)
C18_Witness ==
    \E c \in Clusters :
        /\ mc[c].pc = "loop"
        /\ mc[c].k = 1
        /\ <<"DescribeTasks", c, "error">> \in ecsCalls
        /\ \E t \in TasksOf(c, mc[c].described) : Atoi(t.Cpu).err # Nil
        /\ mc[c].cr.Registered # EmptyMap


(* The instance-type labels of the instances gone through so far.           *)
TypesSeen(c) == {getInstanceType(Processed(c)[j].Attributes) : j \in 1..Len(Processed(c))}

(* C19: after each container instance gone through in a cluster's capacity  *)
(* phase the four maps of the ledger have the same keys, which are exactly  *)
(* the instance-type labels seen so far (the empty label for an instance    *)
(* with no ecs.instance-type attribute); a type whose instances fit no      *)
(* container has registered and remaining entries all the same, of value 0. *)
C19_SameKeysInAllMaps ==
    \A c \in Clusters :
        LET cr == mc[c].cr
            containers == Processed(c)
        IN  /\ \A n \in MetricNames : DOMAIN Resources(cr)[n] = TypesSeen(c)
            /\ \A j \in 1..Len(containers) :
                  (\A a \in Range(containers[j].Attributes) : a.Name # "ecs.instance-type")
                      => "" \in DOMAIN cr.CPU
            /\ \A T \in TypesSeen(c) :
                  /\ (\A j \in OfType(containers, T) :
                        ContainersPossible(mc[c].cpu, mc[c].memory,
                                           containers[j].RegisteredResources) = 0)
                        => cr.Registered[T] = 0
                  /\ (\A j \in OfType(containers, T) :
                        ContainersPossible(mc[c].cpu, mc[c].memory,
                                           containers[j].RemainingResources) = 0)
                        => cr.Remaining[T] = 0

(* Two instances gone through, one of them with no attribute and no         *)
(* resource: its empty label is a key of all four maps, with 0 registered   *)
(* and 0 remaining.                                                         *)
C19_Witness ==
    \E c \in Clusters :
        /\ mc[c].pc = "loop"
        /\ mc[c].k = 2
        /\ TypesSeen(c) = {"fake.2xlarge", ""}
        /\ mc[c].cr.Registered["fake.2xlarge"] > 0
        /\ mc[c].cr.Registered[""] = 0
        /\ mc[c].cr.Remaining[""] = 0

----------------------------------------------------------------------------
(* The goroutines of Measure.                                               *)

(* No goroutine is left: the producers have closed their channels and       *)
(* ended, every cluster's goroutine has sent its result.                    *)
NoGoroutineLeft ==
    /\ dc.pc = "done"
    /\ \A c \in Clusters :
          /\ dt[c].pc \in {"none", "done"}
          /\ mc[c].pc \in {"none", "done"}

(* C20: in every interleaving the result channel of Measure is closed only  *)
(* after each cluster's goroutine has made its one send, so that no send on *)
(* a closed channel can happen; Measure does not deadlock; and when Measure *)
(* returns none of its goroutines, and no cluster or task producer, is      *)
(* still blocked on a channel.                                              *)
C20_NoGoroutineLeftBehind ==
    /\ <>MeasureOver
    /\ [](run.comClosed => MeasureOver /\ NoGoroutineLeft)
    /\ [](MeasureOver => run.comClosed /\ run.i = Len(dc.emitted))
    /\ [][run.comClosed => (mc' = mc /\ dc' = dc /\ dt' = dt)]_vars

(* Measure has returned after two clusters: both goroutines have sent,      *)
(* both task channels and the cluster channel are closed.                   *)
C20_Witness ==
    /\ MeasureOver
    /\ run.numClusters = 2
    /\ NoGoroutineLeft
    /\ \A c \in Clusters : mc[c].pc = "done" /\ dt[c].closed
    /\ \E c \in Clusters : mc[c].batches = 2

====
